---- MODULE Spec2Model ----
(***************************************************************************)
(* Model of the data-preparation nodes of prediccion_preparacion_pandemias *)
(* (pipelines/data_engineering/nodes.py, pipelines/data_cleaning/nodes.py) *)
(* and of the node declarations that wire them to the data catalog.        *)
(*                                                                         *)
(* A table (pandas DataFrame) is a record                                  *)
(*     [columns |-> sequence of column names,                              *)
(*      rows    |-> sequence of [idx |-> index label, cell |-> name->value]]*)
(* A cell value is a pair <<n, d>>: the number n/d in lowest terms with    *)
(* d > 0, and, as in IEEE arithmetic, <<1,0>> = +inf, <<-1,0>> = -inf and  *)
(* <<0,0>> = NaN, the missing marker of pandas.  Country names and dates   *)
(* are coded by numbers whose order is the order of the names and dates.   *)
(***************************************************************************)
EXTENDS Integers, Sequences, FiniteSets, TLC

VARIABLES data, have, ran, raised, effects

vars == <<data, have, ran, raised, effects>>

-----------------------------------------------------------------------------
(* Bounds of the model *)

MaxRows == 3

MaxImputeRows == 4

MaxSpeedRows == 4

MaxRatioRows == 2

MaxPipelineRows == 3

-----------------------------------------------------------------------------
(* Cell values and float arithmetic *)

NaN == <<0, 0>>

PosInf == <<1, 0>>

NegInf == <<-1, 0>>

Num(i) == <<i, 1>>

isna(v) == v = NaN

isinf(v) == v = PosInf \/ v = NegInf

isfinite(v) == v[2] > 0

Abs(i) == IF i < 0 THEN -i ELSE i

Sign(i) == IF i > 0 THEN 1 ELSE IF i < 0 THEN -1 ELSE 0

RECURSIVE Gcd(_, _)
Gcd(a, b) == IF b = 0 THEN a ELSE Gcd(b, a % b)

\* n/d with d >= 0, in lowest terms; d = 0 gives +inf, -inf or NaN by the sign of n
Norm(n, d) ==
    IF d = 0 THEN <<Sign(n), 0>>
    ELSE LET g == Gcd(Abs(n), d) IN <<n \div g, d \div g>>

fmul(a, b) == Norm(a[1] * b[1], a[2] * b[2])

fdiv(a, b) ==
    LET r == IF b[1] < 0 THEN <<-b[2], -b[1]>> ELSE <<b[2], b[1]>>
    IN  Norm(a[1] * r[1], a[2] * r[2])

fadd(a, b) ==
    IF isna(a) \/ isna(b) THEN NaN
    ELSE IF isinf(a) THEN (IF isinf(b) /\ a # b THEN NaN ELSE a)
    ELSE IF isinf(b) THEN b
    ELSE Norm(a[1] * b[2] + b[1] * a[2], a[2] * b[2])

fsub(a, b) ==
    IF isna(a) \/ isna(b) THEN NaN
    ELSE IF isinf(a) THEN (IF a = b THEN NaN ELSE a)
    ELSE IF isinf(b) THEN <<-b[1], 0>>
    ELSE Norm(a[1] * b[2] - b[1] * a[2], a[2] * b[2])

\* a < b on non-missing values
fless(a, b) ==
    IF isinf(a) \/ isinf(b) THEN a # b /\ (a = NegInf \/ b = PosInf)
    ELSE a[1] * b[2] < b[1] * a[2]

\* the order sort_values uses: ascending, missing values last
ValBefore(a, b) == ~isna(a) /\ (isna(b) \/ fless(a, b))

-----------------------------------------------------------------------------
(* Tables *)

Range(s) == {s[i] : i \in 1..Len(s)}

NoTable == [columns |-> <<>>, rows |-> <<>>]

\* the elements of s at the positions of keep, in the order of s
RECURSIVE Pick(_, _, _)
Pick(s, keep, i) ==
    IF i > Len(s) THEN <<>>
    ELSE (IF i \in keep THEN <<s[i]>> ELSE <<>>) \o Pick(s, keep, i + 1)

\* the members of list that satisfy "in present", in the order of list
InOrder(list, present) == Pick(list, {i \in 1..Len(list) : list[i] \in present}, 1)

\* a check of the column axis alone
empty_columns_only(df) == Len(df.columns) = 0

\* df.empty: true when either axis has length 0
empty(df) == Len(df.rows) = 0 \/ Len(df.columns) = 0

SameKey(r1, r2, subset) == \A c \in subset : r1.cell[c] = r2.cell[c]

\* df.drop_duplicates(subset=..., keep="first")
drop_duplicates_first(df, subset) ==
    LET n == Len(df.rows)
        keep == {i \in 1..n :
                   ~\E j \in 1..(i-1) : SameKey(df.rows[i], df.rows[j], subset)}
    IN  [df EXCEPT !.rows = Pick(df.rows, keep, 1)]

\* df.drop_duplicates(subset=..., keep="last"); missing keys compare equal
drop_duplicates(df, subset) ==
    LET n == Len(df.rows)
        keep == {i \in 1..n :
                   ~\E j \in (i+1)..n : SameKey(df.rows[i], df.rows[j], subset)}
    IN  [df EXCEPT !.rows = Pick(df.rows, keep, 1)]

\* lexicographic comparison of two rows on the columns by[k..]
RECURSIVE RowBefore(_, _, _, _)
RowBefore(r1, r2, by, k) ==
    IF k > Len(by) THEN FALSE
    ELSE \/ ValBefore(r1.cell[by[k]], r2.cell[by[k]])
         \/ /\ r1.cell[by[k]] = r2.cell[by[k]]
            /\ RowBefore(r1, r2, by, k + 1)

\* df.sort_values(by[0]): the first column alone, stable
sort_values_first_key(df, by) ==
    LET n == Len(df.rows)
        Goes(j, i) == \/ RowBefore(df.rows[j], df.rows[i], <<by[1]>>, 1)
                      \/ /\ ~RowBefore(df.rows[i], df.rows[j], <<by[1]>>, 1)
                         /\ j < i
        at(k) == CHOOSE i \in 1..n : Cardinality({j \in 1..n : Goes(j, i)}) = k - 1
    IN  [df EXCEPT !.rows = [k \in 1..n |-> df.rows[at(k)]]]

\* df.sort_values(by) with a list of columns: ascending, stable, missing last
sort_values(df, by) ==
    LET n == Len(df.rows)
        Goes(j, i) == \/ RowBefore(df.rows[j], df.rows[i], by, 1)
                      \/ /\ ~RowBefore(df.rows[i], df.rows[j], by, 1)
                         /\ j < i
        at(k) == CHOOSE i \in 1..n : Cardinality({j \in 1..n : Goes(j, i)}) = k - 1
    IN  [df EXCEPT !.rows = [k \in 1..n |-> df.rows[at(k)]]]

\* df.reset_index() without drop=True: the old index becomes a column
reset_index_keep(df) ==
    LET name == IF "index" \in Range(df.columns) THEN "level_0" ELSE "index"
    IN  [columns |-> <<name>> \o df.columns,
         rows |-> [k \in 1..Len(df.rows) |->
                     [idx |-> k - 1,
                      cell |-> [c \in Range(df.columns) \cup {name} |->
                                  IF c = name THEN Num(df.rows[k].idx)
                                  ELSE df.rows[k].cell[c]]]]]

\* df.reset_index(drop=True): a contiguous index 0..n-1, the old one discarded
reset_index(df) ==
    [df EXCEPT !.rows = [k \in 1..Len(df.rows) |-> [df.rows[k] EXCEPT !.idx = k - 1]]]

\* a loaded table: a default RangeIndex over the given rows
Frame(columns, cells) ==
    [columns |-> columns,
     rows |-> [k \in 1..Len(cells) |-> [idx |-> k - 1, cell |-> cells[k]]]]

Raise == [ok |-> FALSE, out |-> <<>>]

Return(tables) == [ok |-> TRUE, out |-> tables]

-----------------------------------------------------------------------------
(* data_engineering/nodes.py *)

covid_required_cols == <<"country", "date", "total_cases">>

vacc_required_cols == <<"country", "date", "total_vaccinations">>

missing_cols(df, required_cols) ==
    Pick(required_cols,
         {i \in 1..Len(required_cols) : required_cols[i] \notin Range(df.columns)}, 1)

validate(df, required_cols) ==
    IF empty(df) THEN Raise
    ELSE IF missing_cols(df, required_cols) # <<>> THEN Raise
    ELSE Return(<<reset_index(
                    sort_values(drop_duplicates(df, {"country", "date"}),
                                <<"country", "date">>))>>)

load_and_validate_covid(df) == validate(df, covid_required_cols)

load_and_validate_vaccination(df) == validate(df, vacc_required_cols)

HasCol(df, c) == c \in Range(df.columns)

Column(df, c) == [k \in 1..Len(df.rows) |-> df.rows[k].cell[c]]

\* the non-missing values of a column, ascending
SortedValues(col) ==
    LET pos == {i \in 1..Len(col) : ~isna(col[i])}
        Goes(j, i) == fless(col[j], col[i]) \/ (col[j] = col[i] /\ j < i)
        at(k) == CHOOSE i \in pos : Cardinality({j \in pos : Goes(j, i)}) = k - 1
    IN  [k \in 1..Cardinality(pos) |-> col[at(k)]]

\* Series.nunique(): the number of distinct non-missing values
nunique(col) == Cardinality(Range(col) \ {NaN})

\* Series.min() and Series.max() skip missing values; NaN when there is none
series_min(col) == IF SortedValues(col) = <<>> THEN NaN ELSE SortedValues(col)[1]

series_max(col) ==
    IF SortedValues(col) = <<>> THEN NaN ELSE SortedValues(col)[Len(SortedValues(col))]

\* df.isnull().sum().sum()
null_count(df) ==
    Cardinality({<<k, c>> \in (1..Len(df.rows)) \X Range(df.columns) :
                    isna(df.rows[k].cell[c])})

\* round(x, 2): to the nearest hundredth, a tie to the even neighbour
round2(x) ==
    IF ~isfinite(x) THEN x
    ELSE LET n == 100 * x[1]
             q == n \div x[2]
             twice == 2 * (n % x[2])
             up == twice > x[2] \/ (twice = x[2] /\ q % 2 = 1)
         IN  Norm(IF up THEN q + 1 ELSE q, 100)

\* one row of the report; date_range is the text "<min> a <max>"
report_row(name, df) ==
    [dataset |-> name,
     n_rows |-> Num(Len(df.rows)),
     n_columns |-> Num(Len(df.columns)),
     n_countries |-> Num(nunique(Column(df, "country"))),
     date_range |-> <<series_min(Column(df, "date")), "a", series_max(Column(df, "date"))>>,
     missing_data_pct |->
         round2(fmul(fdiv(Num(null_count(df)), Num(Len(df.rows) * Len(df.columns))),
                     Num(100)))]

generate_data_quality_report(covid_df, vacc_df) ==
    IF ~HasCol(covid_df, "country") \/ ~HasCol(covid_df, "date")
       \/ ~HasCol(vacc_df, "country") \/ ~HasCol(vacc_df, "date")
    THEN Raise
    ELSE Return(<<Frame(<<"dataset", "n_rows", "n_columns", "n_countries",
                          "date_range", "missing_data_pct">>,
                        <<report_row("COVID-19", covid_df),
                          report_row("Vacunación", vacc_df)>>)>>)

-----------------------------------------------------------------------------
(* data_cleaning/nodes.py: select_important_columns *)

covid_cols ==
    <<"country", "date", "total_cases", "new_cases", "total_deaths", "new_deaths",
      "total_cases_per_million", "total_deaths_per_million", "population",
      "population_density", "median_age", "gdp_per_capita",
      "hospital_beds_per_thousand", "life_expectancy", "human_development_index">>

vacc_cols ==
    <<"country", "date", "total_vaccinations", "people_vaccinated",
      "people_fully_vaccinated", "total_vaccinations_per_hundred",
      "people_vaccinated_per_hundred", "people_fully_vaccinated_per_hundred">>

\* df[cols]: the listed columns, in the order of the list
project(df, cols) ==
    [columns |-> cols,
     rows |-> [k \in 1..Len(df.rows) |->
                 [idx |-> df.rows[k].idx,
                  cell |-> [c \in Range(cols) |-> df.rows[k].cell[c]]]]]

select_important_columns(covid_df, vacc_df) ==
    Return(<<project(covid_df, InOrder(covid_cols, Range(covid_df.columns))),
             project(vacc_df, InOrder(vacc_cols, Range(vacc_df.columns)))>>)

-----------------------------------------------------------------------------
(* data_cleaning/nodes.py: impute_missing_values *)

\* df[col].fillna(value, inplace=True): the missing cells of col become value
fillna(df, col, value) ==
    [df EXCEPT !.rows = [k \in 1..Len(df.rows) |->
        [df.rows[k] EXCEPT !.cell[col] = IF isna(@) THEN value ELSE @]]]

RECURSIVE SumSeq(_, _)
SumSeq(vs, k) == IF k > Len(vs) THEN Num(0) ELSE fadd(vs[k], SumSeq(vs, k + 1))

\* Series.mean(): the mean of the non-missing values
mean(col) ==
    LET vs == SortedValues(col)
    IN  IF Len(vs) = 0 THEN NaN ELSE fdiv(SumSeq(vs, 1), Num(Len(vs)))

\* Series.median(): the median of the non-missing values, NaN when there is none
median(col) ==
    LET vs == SortedValues(col)
        n == Len(vs)
    IN  IF n = 0 THEN NaN
        ELSE IF n % 2 = 1 THEN vs[(n + 1) \div 2]
        ELSE fdiv(fadd(vs[n \div 2], vs[n \div 2 + 1]), Num(2))

covid_strategies ==
    <<"total_cases", "new_cases", "total_deaths", "new_deaths",
      "total_cases_per_million", "total_deaths_per_million">>

socio_cols ==
    <<"population_density", "median_age", "gdp_per_capita",
      "hospital_beds_per_thousand", "life_expectancy", "human_development_index">>

\* for col, value in covid_strategies.items(): every value is 0
RECURSIVE FillStrategies(_, _)
FillStrategies(df, k) ==
    IF k > Len(covid_strategies) THEN df
    ELSE FillStrategies(
            IF HasCol(df, covid_strategies[k])
            THEN fillna(df, covid_strategies[k], Num(0)) ELSE df,
            k + 1)

\* for col in socio_cols: fill with the column's median
RECURSIVE FillSocio(_, _)
FillSocio(df, k) ==
    IF k > Len(socio_cols) THEN df
    ELSE FillSocio(
            IF HasCol(df, socio_cols[k])
            THEN fillna(df, socio_cols[k], median(Column(df, socio_cols[k]))) ELSE df,
            k + 1)

vacc_fill_cols(df) == InOrder(df.columns, Range(df.columns) \ {"country", "date"})

\* for col in vacc_fill_cols: fill with 0
RECURSIVE FillVacc(_, _, _)
FillVacc(df, cols, k) ==
    IF k > Len(cols) THEN df ELSE FillVacc(fillna(df, cols[k], Num(0)), cols, k + 1)

impute_missing_values(covid_df, vacc_df) ==
    Return(<<FillSocio(FillStrategies(covid_df, 1), 1),
             FillVacc(vacc_df, vacc_fill_cols(vacc_df), 1)>>)

-----------------------------------------------------------------------------
(* data_cleaning/nodes.py: create_features *)

\* df[name] = values: an existing column is overwritten, a new one is appended
with_column(df, name, values) ==
    [columns |-> IF HasCol(df, name) THEN df.columns ELSE Append(df.columns, name),
     rows |-> [k \in 1..Len(df.rows) |->
                 [idx |-> df.rows[k].idx,
                  cell |-> [c \in Range(df.columns) \cup {name} |->
                              IF c = name THEN values[k] ELSE df.rows[k].cell[c]]]]]

\* Series.replace([np.inf, -np.inf], 0), left out
keep_inf(v) == v

\* Series.replace([np.inf, -np.inf], 0)
replace_inf(v) == IF isinf(v) THEN Num(0) ELSE v

\* Series.fillna(0)
fillna0(v) == IF isna(v) THEN Num(0) ELSE v

death_rate(df) ==
    [k \in 1..Len(df.rows) |->
        fillna0(replace_inf(
            fmul(fdiv(df.rows[k].cell["total_deaths"], df.rows[k].cell["total_cases"]),
                 Num(100))))]

healthcare_capacity_index(df) ==
    [k \in 1..Len(df.rows) |->
        fillna0(fdiv(fmul(df.rows[k].cell["hospital_beds_per_thousand"],
                          df.rows[k].cell["gdp_per_capita"]),
                     Num(10000)))]

\* the nearest row before k in the table's row order, whatever its country
prev_row(df, key, k) == IF k > 1 THEN {k - 1} ELSE {}

\* the nearest row before k with the key value of row k; rows with a missing
\* key belong to no group (groupby drops them)
prev_in_group(df, key, k) ==
    LET same == {j \in 1..(k - 1) :
                    /\ ~isna(df.rows[k].cell[key])
                    /\ df.rows[j].cell[key] = df.rows[k].cell[key]}
    IN  IF same = {} THEN {} ELSE {CHOOSE j \in same : \A l \in same : l <= j}

\* df.groupby(key)[col].diff(): NaN for the first row of a group and for rows
\* outside every group
groupby_diff(df, key, col) ==
    [k \in 1..Len(df.rows) |->
        LET p == prev_in_group(df, key, k)
        IN  IF p = {} THEN NaN
            ELSE fsub(df.rows[k].cell[col], df.rows[CHOOSE j \in p : TRUE].cell[col])]

vaccination_speed(df) ==
    LET d == groupby_diff(df, "country", "people_vaccinated_per_hundred")
    IN  [k \in 1..Len(df.rows) |-> fillna0(d[k])]

vaccination_efficiency(df) ==
    [k \in 1..Len(df.rows) |->
        fmul(fillna0(replace_inf(
                fdiv(df.rows[k].cell["people_fully_vaccinated"],
                     df.rows[k].cell["people_vaccinated"]))),
             Num(100))]

covid_feature_table(df) ==
    LET with_rate == with_column(df, "death_rate", death_rate(df))
    IN  IF HasCol(with_rate, "hospital_beds_per_thousand")
           /\ HasCol(with_rate, "gdp_per_capita")
        THEN with_column(with_rate, "healthcare_capacity_index",
                         healthcare_capacity_index(with_rate))
        ELSE with_rate

vacc_feature_table(df) ==
    LET with_speed == with_column(df, "vaccination_speed", vaccination_speed(df))
    IN  with_column(with_speed, "vaccination_efficiency",
                    vaccination_efficiency(with_speed))

\* a column read without a presence check raises KeyError when it is absent
create_features(covid_df, vacc_df) ==
    IF ~HasCol(covid_df, "total_deaths") \/ ~HasCol(covid_df, "total_cases") THEN Raise
    ELSE IF ~HasCol(vacc_df, "country")
            \/ ~HasCol(vacc_df, "people_vaccinated_per_hundred") THEN Raise
    ELSE IF ~HasCol(vacc_df, "people_fully_vaccinated")
            \/ ~HasCol(vacc_df, "people_vaccinated") THEN Raise
    ELSE Return(<<covid_feature_table(covid_df), vacc_feature_table(vacc_df)>>)

-----------------------------------------------------------------------------
(* data_cleaning/nodes.py: integrate_datasets *)

\* df.sort_values(col) with one column: ascending, missing last; the default
\* quicksort is not stable, so rows with equal values come in any order
sort_values_by(df, col) ==
    LET n == Len(df.rows)
        perms == {p \in [1..n -> 1..n] : \A i, j \in 1..n : i # j => p[i] # p[j]}
    IN  {[df EXCEPT !.rows = [k \in 1..n |-> df.rows[p[k]]]] :
            p \in {q \in perms :
                     \A i, j \in 1..n :
                        i < j => ~ValBefore(df.rows[q[j]].cell[col],
                                            df.rows[q[i]].cell[col])}}

\* the group keys of groupby(key): the present values, ascending
group_keys(df, key) == SortedValues([k \in 1..Len(df.rows) |-> df.rows[k].cell[key]])

RECURSIVE Dedup(_, _)
Dedup(vs, k) ==
    IF k > Len(vs) THEN <<>>
    ELSE (IF k > 1 /\ vs[k] = vs[k - 1] THEN <<>> ELSE <<vs[k]>>) \o Dedup(vs, k + 1)

\* GroupBy.last() for one group and column: the last non-missing value of the
\* column in the group, NaN when the group has none
last_value(df, members, col) ==
    LET present == {i \in members : ~isna(df.rows[i].cell[col])}
    IN  IF present = {} THEN NaN
        ELSE df.rows[CHOOSE i \in present : \A j \in present : j <= i].cell[col]

\* df.groupby(key).last().reset_index(): one row per group, the key first
groupby_last(df, key) ==
    LET keys == Dedup(group_keys(df, key), 1)
        others == InOrder(df.columns, Range(df.columns) \ {key})
        members(g) == {i \in 1..Len(df.rows) : df.rows[i].cell[key] = g}
    IN  [columns |-> <<key>> \o others,
         rows |-> [k \in 1..Len(keys) |->
                     [idx |-> k - 1,
                      cell |-> [c \in Range(df.columns) |->
                                  IF c = key THEN keys[k]
                                  ELSE last_value(df, members(keys[k]), c)]]]]

\* the name of a non-key column of one side in the merged table
merged_name(c, other, on, suffix) ==
    IF c # on /\ HasCol(other, c) THEN c \o suffix ELSE c

\* the row of right whose key is v, if any (right holds one row per key)
match(right, on, v) == {j \in 1..Len(right.rows) : right.rows[j].cell[on] = v}

\* left.merge(right, on=on, how="inner", suffixes=(ls, rs))
merge_inner(left, right, on, ls, rs) ==
    LET lcols == [i \in 1..Len(left.columns) |->
                    merged_name(left.columns[i], right, on, ls)]
        rkept == InOrder(right.columns, Range(right.columns) \ {on})
        rcols == [i \in 1..Len(rkept) |-> merged_name(rkept[i], left, on, rs)]
        kept == Pick(left.rows,
                     {k \in 1..Len(left.rows) :
                        match(right, on, left.rows[k].cell[on]) # {}}, 1)
        cellOf(k, name) ==
            IF \E i \in 1..Len(lcols) : lcols[i] = name
            THEN kept[k].cell[left.columns[CHOOSE i \in 1..Len(lcols) : lcols[i] = name]]
            ELSE LET m == match(right, on, kept[k].cell[on])
                     c == rkept[CHOOSE i \in 1..Len(rcols) : rcols[i] = name]
                 IN  right.rows[CHOOSE j \in m : TRUE].cell[c]
    IN  [columns |-> lcols \o rcols,
         rows |-> [k \in 1..Len(kept) |->
                     [idx |-> k - 1,
                      cell |-> [name \in Range(lcols) \cup Range(rcols) |->
                                  cellOf(k, name)]]]]

\* left.merge(right, on=on, how="left", suffixes=(ls, rs)): every left row is
\* kept in order; the right columns of an unmatched row are missing
merge_left(left, right, on, ls, rs) ==
    LET lcols == [i \in 1..Len(left.columns) |->
                    merged_name(left.columns[i], right, on, ls)]
        rkept == InOrder(right.columns, Range(right.columns) \ {on})
        rcols == [i \in 1..Len(rkept) |-> merged_name(rkept[i], left, on, rs)]
        cellOf(k, name) ==
            IF \E i \in 1..Len(lcols) : lcols[i] = name
            THEN left.rows[k].cell[left.columns[CHOOSE i \in 1..Len(lcols) : lcols[i] = name]]
            ELSE LET m == match(right, on, left.rows[k].cell[on])
                     c == rkept[CHOOSE i \in 1..Len(rcols) : rcols[i] = name]
                 IN  IF m = {} THEN NaN ELSE right.rows[CHOOSE j \in m : TRUE].cell[c]
    IN  [columns |-> lcols \o rcols,
         rows |-> [k \in 1..Len(left.rows) |->
                     [idx |-> k - 1,
                      cell |-> [name \in Range(lcols) \cup Range(rcols) |->
                                  cellOf(k, name)]]]]

\* the results integrate_datasets can return: one for each order in which the
\* two date sorts leave rows of equal date
integrate_datasets(covid_df, vacc_df) ==
    IF ~HasCol(covid_df, "date") \/ ~HasCol(covid_df, "country")
       \/ ~HasCol(vacc_df, "date") \/ ~HasCol(vacc_df, "country")
    THEN {Raise}
    ELSE {Return(<<merge_left(groupby_last(cs, "country"), groupby_last(vs, "country"),
                              "country", "_covid", "_vacc")>>) :
            cs \in sort_values_by(covid_df, "date"),
            vs \in sort_values_by(vacc_df, "date")}

-----------------------------------------------------------------------------
(* data_cleaning/nodes.py: create_ml_datasets *)

regression_cols ==
    <<"country", "gdp_per_capita", "hospital_beds_per_thousand", "population_density",
      "median_age", "healthcare_capacity_index", "people_fully_vaccinated_per_hundred",
      "vaccination_speed">>

classification_cols ==
    <<"country", "total_deaths_per_million", "gdp_per_capita",
      "hospital_beds_per_thousand", "human_development_index", "death_rate",
      "healthcare_capacity_index">>

\* every row kept, missing cells or not
keep_rows(df) == df

\* df.dropna(): the rows without a missing cell, index labels kept
dropna(df) ==
    [df EXCEPT !.rows =
        Pick(df.rows,
             {k \in 1..Len(df.rows) :
                \A c \in Range(df.columns) : ~isna(df.rows[k].cell[c])}, 1)]

\* integrated_df.dropna()[cols]: rows dropped before the columns are selected
ml_dataset_dropna_first(df, cols) ==
    project(dropna(df), InOrder(cols, Range(df.columns)))

\* integrated_df[[col for col in cols if col in integrated_df.columns]].dropna()
ml_dataset(df, cols) == dropna(project(df, InOrder(cols, Range(df.columns))))

create_ml_datasets(integrated_df) ==
    Return(<<ml_dataset(integrated_df, regression_cols),
             ml_dataset(integrated_df, classification_cols)>>)

-----------------------------------------------------------------------------
(* Objects: what a call does to the tables it was given.  A heap is the    *)
(* sequence of the DataFrame objects alive during a call; a reference is a *)
(* position in it.  The arguments are the first objects of the heap.       *)

\* a method that returns a new DataFrame holding t
alloc(h, t) == [heap |-> Append(h, t), ref |-> Len(h) + 1]

\* the same object under another name: no new DataFrame
share(h, r) == [heap |-> h, ref |-> r]

\* df.copy(): a new object with the contents of the object r
copy(h, r) == alloc(h, h[r])

\* df[col] = ..., df[col].fillna(..., inplace=True): the object r now holds t
assign(h, r, t) == [h EXCEPT ![r] = t]

\* the call is over: the arguments as the caller now sees them, and the
\* arguments that are also returned objects
Effect(h, nargs, result) ==
    [args |-> [k \in 1..nargs |-> h[k]],
     shared |-> Range(result) \cap (1..nargs)]

\* load_and_validate_*: df is rebound to the result of drop_duplicates, of
\* sort_values and of reset_index; each is a new object
validate_effect(df, required_cols) ==
    LET h0 == <<df>>
        d == alloc(h0, drop_duplicates(h0[1], {"country", "date"}))
        s == alloc(d.heap, sort_values(d.heap[d.ref], <<"country", "date">>))
        r == alloc(s.heap, reset_index(s.heap[s.ref]))
    IN  IF validate(df, required_cols).ok
        THEN Effect(r.heap, 1, <<r.ref>>)
        ELSE Effect(h0, 1, <<>>)

\* generate_data_quality_report: reads the two tables, builds report_df
generate_data_quality_report_effect(covid_df, vacc_df) ==
    LET h0 == <<covid_df, vacc_df>>
        call == generate_data_quality_report(covid_df, vacc_df)
    IN  IF call.ok
        THEN Effect(alloc(h0, call.out[1]).heap, 2, <<Len(h0) + 1>>)
        ELSE Effect(h0, 2, <<>>)

\* select_important_columns: df[available] is a new object, .copy() another
select_important_columns_effect(covid_df, vacc_df) ==
    LET h0 == <<covid_df, vacc_df>>
        c == alloc(h0, project(h0[1], InOrder(covid_cols, Range(h0[1].columns))))
        covid_clean == copy(c.heap, c.ref)
        v == alloc(covid_clean.heap,
                   project(covid_clean.heap[2],
                           InOrder(vacc_cols, Range(covid_clean.heap[2].columns))))
        vacc_clean == copy(v.heap, v.ref)
    IN  Effect(vacc_clean.heap, 2, <<covid_clean.ref, vacc_clean.ref>>)

\* impute_missing_values: the fills are made in place in covid_imputed and
\* vacc_imputed, the copies taken on entry
impute_missing_values_effect(covid_df, vacc_df) ==
    LET h0 == <<covid_df, vacc_df>>
        covid_imputed == copy(h0, 1)
        vacc_imputed == copy(covid_imputed.heap, 2)
        h1 == assign(vacc_imputed.heap, covid_imputed.ref,
                     FillSocio(FillStrategies(vacc_imputed.heap[covid_imputed.ref], 1), 1))
        h2 == assign(h1, vacc_imputed.ref,
                     FillVacc(h1[vacc_imputed.ref], vacc_fill_cols(h1[vacc_imputed.ref]), 1))
    IN  Effect(h2, 2, <<covid_imputed.ref, vacc_imputed.ref>>)

\* create_features: the new columns are assigned in place in covid_features
\* and vacc_features, the copies taken on entry; a KeyError ends the call
\* with what was assigned before it
create_features_effect(covid_df, vacc_df) ==
    LET h0 == <<covid_df, vacc_df>>
        covid_features == copy(h0, 1)
        vacc_features == copy(covid_features.heap, 2)
        c == covid_features.ref
        v == vacc_features.ref
        h1 == vacc_features.heap
        covid_ok == HasCol(h1[c], "total_deaths") /\ HasCol(h1[c], "total_cases")
        h2 == IF covid_ok THEN assign(h1, c, covid_feature_table(h1[c])) ELSE h1
        speed_ok == covid_ok /\ HasCol(h2[v], "country")
                    /\ HasCol(h2[v], "people_vaccinated_per_hundred")
        h3 == IF speed_ok
              THEN assign(h2, v, with_column(h2[v], "vaccination_speed",
                                             vaccination_speed(h2[v])))
              ELSE h2
        ratio_ok == speed_ok /\ HasCol(h3[v], "people_fully_vaccinated")
                    /\ HasCol(h3[v], "people_vaccinated")
        h4 == IF ratio_ok
              THEN assign(h3, v, with_column(h3[v], "vaccination_efficiency",
                                             vaccination_efficiency(h3[v])))
              ELSE h3
    IN  Effect(h4, 2, IF ratio_ok THEN <<c, v>> ELSE <<>>)

\* integrate_datasets: sort_values, groupby().last(), reset_index and merge
\* each return a new object; integrated is the one returned
integrate_datasets_effect(covid_df, vacc_df, call) ==
    LET h0 == <<covid_df, vacc_df>>
    IN  IF call.ok
        THEN Effect(alloc(h0, call.out[1]).heap, 2, <<Len(h0) + 1>>)
        ELSE Effect(h0, 2, <<>>)

\* create_ml_datasets: integrated_df[[...]] is a new object, .dropna() another
create_ml_datasets_effect(integrated_df) ==
    LET h0 == <<integrated_df>>
        r == alloc(h0, project(h0[1], InOrder(regression_cols, Range(h0[1].columns))))
        regression_data == alloc(r.heap, dropna(r.heap[r.ref]))
        k == alloc(regression_data.heap,
                   project(regression_data.heap[1],
                           InOrder(classification_cols,
                                   Range(regression_data.heap[1].columns))))
        classification_data == alloc(k.heap, dropna(k.heap[k.ref]))
    IN  Effect(classification_data.heap, 1,
               <<regression_data.ref, classification_data.ref>>)

-----------------------------------------------------------------------------
(* Nodes: a node reads its inputs from the catalog, calls its function and *)
(* stores the outputs; a raised exception stores nothing.                  *)

Datasets ==
    {"covid_compact_raw", "vaccination_global_raw",
     "covid_compact_validated", "vaccination_global_validated",
     "eda_summary_stats", "covid_selected", "vacc_selected",
     "covid_imputed", "vacc_imputed", "covid_features", "vacc_features",
     "integrated_data", "regression_data", "classification_data"}

Nodes ==
    {"validate_covid_data", "validate_vaccination_data", "generate_quality_report",
     "select_columns", "impute_missing", "create_features", "integrate_datasets",
     "create_ml_datasets"}

\* before a node has run its function has had no effect
NoEffect == [args |-> <<>>, shared |-> {}]

\* the function of the node was called: e is what the call did to its arguments
Called(name, e) == effects' = [effects EXCEPT ![name] = e]

\* a node that starts whatever the catalog holds
start_unordered(name, inputs) == name \notin ran

\* the runner starts a node once, when all its inputs are in the catalog; a
\* node that raised ends the run, and no other node starts after it
Ready(name, inputs) == name \notin ran /\ raised = {} /\ Range(inputs) \subseteq have

Store(name, outputs, r) ==
    /\ ran' = ran \cup {name}
    /\ IF r.ok
       THEN /\ data' = [d \in Datasets |->
                          IF \E k \in 1..Len(outputs) : outputs[k] = d
                          THEN r.out[CHOOSE k \in 1..Len(outputs) : outputs[k] = d]
                          ELSE data[d]]
            /\ have' = have \cup Range(outputs)
            /\ raised' = raised
       ELSE /\ raised' = raised \cup {name}
            /\ UNCHANGED <<data, have>>

validate_covid_data ==
    /\ Ready("validate_covid_data", <<"covid_compact_raw">>)
    /\ Store("validate_covid_data", <<"covid_compact_validated">>,
             load_and_validate_covid(data["covid_compact_raw"]))
    /\ Called("validate_covid_data",
              validate_effect(data["covid_compact_raw"], covid_required_cols))

validate_vaccination_data ==
    /\ Ready("validate_vaccination_data", <<"vaccination_global_raw">>)
    /\ Store("validate_vaccination_data", <<"vaccination_global_validated">>,
             load_and_validate_vaccination(data["vaccination_global_raw"]))
    /\ Called("validate_vaccination_data",
              validate_effect(data["vaccination_global_raw"], vacc_required_cols))

generate_quality_report ==
    /\ Ready("generate_quality_report",
             <<"covid_compact_validated", "vaccination_global_validated">>)
    /\ Store("generate_quality_report", <<"eda_summary_stats">>,
             generate_data_quality_report(data["covid_compact_validated"],
                                          data["vaccination_global_validated"]))
    /\ Called("generate_quality_report",
              generate_data_quality_report_effect(data["covid_compact_validated"],
                                                  data["vaccination_global_validated"]))

select_columns ==
    /\ Ready("select_columns",
             <<"covid_compact_validated", "vaccination_global_validated">>)
    /\ Store("select_columns", <<"covid_selected", "vacc_selected">>,
             select_important_columns(data["covid_compact_validated"],
                                      data["vaccination_global_validated"]))
    /\ Called("select_columns",
              select_important_columns_effect(data["covid_compact_validated"],
                                              data["vaccination_global_validated"]))

impute_missing ==
    /\ Ready("impute_missing", <<"covid_selected", "vacc_selected">>)
    /\ Store("impute_missing", <<"covid_imputed", "vacc_imputed">>,
             impute_missing_values(data["covid_selected"], data["vacc_selected"]))
    /\ Called("impute_missing",
              impute_missing_values_effect(data["covid_selected"], data["vacc_selected"]))

create_features_node ==
    /\ Ready("create_features", <<"covid_imputed", "vacc_imputed">>)
    /\ Store("create_features", <<"covid_features", "vacc_features">>,
             create_features(data["covid_imputed"], data["vacc_imputed"]))
    /\ Called("create_features",
              create_features_effect(data["covid_imputed"], data["vacc_imputed"]))

integrate_datasets_node ==
    /\ Ready("integrate_datasets", <<"covid_features", "vacc_features">>)
    /\ \E r \in integrate_datasets(data["covid_features"], data["vacc_features"]) :
          /\ Store("integrate_datasets", <<"integrated_data">>, r)
          /\ Called("integrate_datasets",
                    integrate_datasets_effect(data["covid_features"],
                                              data["vacc_features"], r))

create_ml_datasets_node ==
    /\ Ready("create_ml_datasets", <<"integrated_data">>)
    /\ Store("create_ml_datasets", <<"regression_data", "classification_data">>,
             create_ml_datasets(data["integrated_data"]))
    /\ Called("create_ml_datasets", create_ml_datasets_effect(data["integrated_data"]))

-----------------------------------------------------------------------------
(* Input tables *)

KeyVals == {NaN, Num(1), Num(2)}

\* the (country, date) keys of the rows of the raw tables
KeyPairs ==
    {<<Num(1), Num(1)>>, <<Num(1), Num(2)>>, <<Num(2), Num(1)>>,
     <<Num(2), Num(2)>>, <<NaN, Num(1)>>, <<Num(1), NaN>>}

PayloadVals == {Num(0), Num(1)}

\* a row given by its values in the order of the columns
RowOf(columns, t) ==
    [c \in Range(columns) |-> t[CHOOSE i \in 1..Len(columns) : columns[i] = c]]

\* the rows of a raw table with the given columns
RawCells(columns) ==
    {f \in [Range(columns) -> KeyVals \cup PayloadVals] :
       /\ \A c \in Range(columns) :
            f[c] \in (IF c \in {"country", "date"} THEN KeyVals ELSE PayloadVals)
       /\ {"country", "date"} \subseteq Range(columns)
            => <<f["country"], f["date"]>> \in KeyPairs}

SubSeqs(s) == {Pick(s, keep, 1) : keep \in SUBSET (1..Len(s))}

OneRow(columns, v) == Frame(columns, <<[c \in Range(columns) |-> v]>>)

SampleTables(required_cols) ==
    {OneRow(required_cols, Num(1)), OneRow(<<"country", "date">>, Num(1))}

Blank == [d \in Datasets |-> NoTable]

NothingRun == ran = {} /\ raised = {} /\ effects = [n \in Nodes |-> NoEffect]

\* one raw table ranges over the tables of up to MaxRows rows with any of the
\* required columns, the other over two samples
InitValidate ==
    /\ \E k \in 0..MaxRows :
          \/ \E cols \in SubSeqs(covid_required_cols) :
                \E cs \in [1..k -> RawCells(cols)], v \in SampleTables(vacc_required_cols) :
                   data = [Blank EXCEPT !["covid_compact_raw"] = Frame(cols, cs),
                                        !["vaccination_global_raw"] = v]
          \/ \E cols \in SubSeqs(vacc_required_cols) :
                \E cs \in [1..k -> RawCells(cols)], c \in SampleTables(covid_required_cols) :
                   data = [Blank EXCEPT !["covid_compact_raw"] = c,
                                        !["vaccination_global_raw"] = Frame(cols, cs)]
    /\ have = {"covid_compact_raw", "vaccination_global_raw"}
    /\ NothingRun

NextValidate == validate_covid_data \/ validate_vaccination_data

SpecValidate == InitValidate /\ [][NextValidate]_vars

SelectedCovidRows(columns) ==
    {f \in [Range(columns) -> {NaN, Num(1), Num(2), Num(4)}] :
       \A c \in Range(columns) :
          f[c] \in (IF c \in {"country", "date"} THEN {Num(1)}
                    ELSE IF c = "total_cases" THEN {NaN, Num(1)}
                    ELSE {NaN, Num(1), Num(2), Num(4)})}

SelectedCovidColumns ==
    {<<"country", "date", "total_cases", "median_age">>,
     <<"country", "date", "total_cases">>,
     <<"country", "date", "median_age">>}

SelectedVaccColumns == <<"country", "date", "total_vaccinations", "people_vaccinated">>

SelectedVaccRows ==
    {RowOf(SelectedVaccColumns, <<c, Num(1), t, v>>) :
       c \in {NaN, Num(1)}, t \in {NaN, Num(3)}, v \in {NaN, Num(2)}}

SampleSelectedCovid ==
    Frame(<<"country", "date", "total_cases", "median_age">>,
          <<[country |-> Num(1), date |-> Num(1),
             total_cases |-> NaN, median_age |-> NaN]>>)

SampleSelectedVacc ==
    Frame(<<"country", "date", "total_vaccinations">>,
          <<[country |-> Num(1), date |-> Num(1), total_vaccinations |-> NaN]>>)

InitImpute ==
    /\ \/ \E k \in 0..MaxImputeRows, cols \in SelectedCovidColumns :
             \E cs \in [1..k -> SelectedCovidRows(cols)] :
                data = [Blank EXCEPT !["covid_selected"] = Frame(cols, cs),
                                     !["vacc_selected"] = SampleSelectedVacc]
       \/ \E k \in 0..MaxRows :
             \E cs \in [1..k -> SelectedVaccRows] :
                data = [Blank EXCEPT !["covid_selected"] = SampleSelectedCovid,
                                     !["vacc_selected"] = Frame(SelectedVaccColumns, cs)]
    /\ have = {"covid_selected", "vacc_selected"}
    /\ NothingRun

NextImpute == impute_missing

SpecImpute == InitImpute /\ [][NextImpute]_vars

CovidColumns ==
    <<"country", "date", "total_cases", "total_deaths",
      "hospital_beds_per_thousand", "gdp_per_capita">>

VaccColumns ==
    <<"country", "date", "people_vaccinated", "people_fully_vaccinated",
      "people_vaccinated_per_hundred">>

\* the (columns, rows) families of the case/death inputs of create_features
FeatureCovidFamilies ==
    {[columns |-> CovidColumns,
      rows |-> {RowOf(CovidColumns, <<Num(1), Num(1), c, d, b, Num(5000)>>) :
                  c \in {NaN, Num(0), Num(3)}, d \in {NaN, Num(0), Num(1), Num(-1)},
                  b \in {NaN, Num(2)}}],
     [columns |-> <<"country", "date", "total_cases", "total_deaths", "gdp_per_capita">>,
      rows |-> {RowOf(<<"country", "date", "total_cases", "total_deaths",
                        "gdp_per_capita">>, <<Num(1), Num(1), c, Num(1), g>>) :
                  c \in {Num(0), Num(3)}, g \in {NaN, Num(5000)}}],
     [columns |-> <<"country", "date", "total_cases">>,
      rows |-> {RowOf(<<"country", "date", "total_cases">>, <<Num(1), Num(1), c>>) :
                  c \in {Num(0), Num(3)}}]}

\* vaccination inputs that vary the country and people_vaccinated_per_hundred
FeatureVaccSpeedRows ==
    {RowOf(VaccColumns, <<Num(1), Num(1), Num(2), Num(1), h>>) :
       h \in {NaN, Num(5), Num(8), Num(15)}}
    \cup {RowOf(VaccColumns, <<Num(2), Num(1), Num(2), Num(1), h>>) :
            h \in {Num(5), Num(8)}}
    \cup {RowOf(VaccColumns, <<NaN, Num(1), Num(2), Num(1), Num(5)>>)}

\* vaccination inputs that vary the operands of vaccination_efficiency
FeatureVaccRatioFamilies ==
    {[columns |-> VaccColumns,
      rows |-> {RowOf(VaccColumns, <<Num(1), Num(1), v, f, Num(5)>>) :
                  v \in {NaN, Num(0), Num(2)}, f \in {NaN, Num(0), Num(1), Num(-1)}}],
     [columns |-> <<"country", "date", "people_vaccinated", "people_fully_vaccinated">>,
      rows |-> {RowOf(<<"country", "date", "people_vaccinated",
                        "people_fully_vaccinated">>, <<Num(1), Num(1), Num(2), f>>) :
                  f \in {Num(0), Num(1)}}],
     [columns |-> <<"country", "date", "people_vaccinated_per_hundred">>,
      rows |-> {RowOf(<<"country", "date", "people_vaccinated_per_hundred">>,
                      <<Num(1), Num(1), h>>) : h \in {Num(5), Num(8)}}]}

SampleImputedCovid ==
    Frame(<<"country", "date", "total_cases", "total_deaths">>,
          <<[country |-> Num(1), date |-> Num(1),
             total_cases |-> Num(3), total_deaths |-> Num(1)]>>)

SampleImputedVacc ==
    Frame(VaccColumns,
          <<[country |-> Num(1), date |-> Num(1), people_vaccinated |-> Num(2),
             people_fully_vaccinated |-> Num(1),
             people_vaccinated_per_hundred |-> Num(5)]>>)

InitFeatures ==
    /\ \/ \E k \in 0..MaxRatioRows, fam \in FeatureCovidFamilies :
             \E cs \in [1..k -> fam.rows] :
                data = [Blank EXCEPT !["covid_imputed"] = Frame(fam.columns, cs),
                                     !["vacc_imputed"] = SampleImputedVacc]
       \/ \E k \in 0..MaxSpeedRows :
             \E cs \in [1..k -> FeatureVaccSpeedRows] :
                data = [Blank EXCEPT !["covid_imputed"] = SampleImputedCovid,
                                     !["vacc_imputed"] = Frame(VaccColumns, cs)]
       \/ \E k \in 0..MaxRatioRows, fam \in FeatureVaccRatioFamilies :
             \E cs \in [1..k -> fam.rows] :
                data = [Blank EXCEPT !["covid_imputed"] = SampleImputedCovid,
                                     !["vacc_imputed"] = Frame(fam.columns, cs)]
    /\ have = {"covid_imputed", "vacc_imputed"}
    /\ NothingRun

NextFeatures == create_features_node

SpecFeatures == InitFeatures /\ [][NextFeatures]_vars

IntegrateCovidFamilies ==
    {[columns |-> <<"country", "date", "population">>,
      rows |-> {RowOf(<<"country", "date", "population">>, t) :
                  t \in {<<Num(1), Num(1), v>> : v \in {NaN, Num(5), Num(6)}}
                        \cup {<<Num(1), Num(2), v>> : v \in {NaN, Num(5)}}
                        \cup {<<Num(2), Num(1), Num(5)>>, <<NaN, Num(1), Num(5)>>}}],
     [columns |-> <<"country", "population">>,
      rows |-> {RowOf(<<"country", "population">>, t) :
                  t \in {<<Num(1), Num(5)>>, <<Num(2), NaN>>}}]}

IntegrateVaccColumns == <<"country", "date", "vaccination_speed">>

IntegrateVaccRows ==
    {RowOf(IntegrateVaccColumns, t) :
       t \in {<<Num(1), Num(1), v>> : v \in {NaN, Num(7), Num(8)}}
             \cup {<<Num(1), Num(2), v>> : v \in {NaN, Num(7)}}
             \cup {<<Num(2), Num(1), Num(7)>>, <<Num(3), Num(1), Num(7)>>,
                   <<NaN, Num(1), Num(7)>>}}

SampleFeaturesCovid ==
    Frame(<<"country", "date", "population">>,
          <<[country |-> Num(2), date |-> Num(1), population |-> Num(5)],
            [country |-> Num(1), date |-> Num(1), population |-> Num(5)],
            [country |-> Num(1), date |-> Num(2), population |-> NaN]>>)

SampleFeaturesVacc ==
    Frame(IntegrateVaccColumns,
          <<[country |-> Num(2), date |-> Num(1), vaccination_speed |-> Num(7)],
            [country |-> Num(2), date |-> Num(2), vaccination_speed |-> Num(7)]>>)

InitIntegrate ==
    /\ \/ \E k \in 0..MaxRows, fam \in IntegrateCovidFamilies :
             \E cs \in [1..k -> fam.rows] :
                data = [Blank EXCEPT !["covid_features"] = Frame(fam.columns, cs),
                                     !["vacc_features"] = SampleFeaturesVacc]
       \/ \E k \in 0..MaxRows :
             \E cs \in [1..k -> IntegrateVaccRows] :
                data = [Blank EXCEPT !["covid_features"] = SampleFeaturesCovid,
                                     !["vacc_features"] = Frame(IntegrateVaccColumns, cs)]
    /\ have = {"covid_features", "vacc_features"}
    /\ NothingRun

NextIntegrate == integrate_datasets_node

SpecIntegrate == InitIntegrate /\ [][NextIntegrate]_vars

SnapshotColumns ==
    {<<"country", "population", "gdp_per_capita", "death_rate", "vaccination_speed">>,
     <<"population", "vaccination_speed", "country", "death_rate">>,
     <<"gdp_per_capita", "population">>}

\* a snapshot: one row per country, the k-th row for country k
Snapshot(columns, cells) ==
    Frame(columns,
          [k \in 1..Len(cells) |->
              [c \in Range(columns) |-> IF c = "country" THEN Num(k) ELSE cells[k][c]]])

InitSplit ==
    /\ \E k \in 0..MaxRows, cols \in SnapshotColumns :
          \E cs \in [1..k -> [Range(cols) \ {"country"} -> {NaN, Num(1)}]] :
             data = [Blank EXCEPT !["integrated_data"] = Snapshot(cols, cs)]
    /\ have = {"integrated_data"}
    /\ NothingRun

NextSplit == create_ml_datasets_node

SpecSplit == InitSplit /\ [][NextSplit]_vars

\* The default pipeline (data_engineering + data_cleaning) run on raw tables.

RawCovidColumns ==
    {<<"country", "date", "total_cases", "total_deaths", "median_age", "iso_code">>,
     <<"country", "date", "total_cases", "population">>,
     <<"country", "date", "total_deaths">>}

RawVaccColumns ==
    {<<"country", "date", "total_vaccinations", "people_vaccinated",
       "people_fully_vaccinated", "people_vaccinated_per_hundred">>,
     <<"country", "date", "total_vaccinations">>,
     <<"country", "date", "people_vaccinated">>}

\* the raw rows: three keys, and one value or a missing cell in every other
\* column
PipelineRows(columns) ==
    {f \in [Range(columns) -> {NaN, Num(1), Num(2)}] :
       /\ <<f["country"], f["date"]>>
            \in {<<Num(1), Num(1)>>, <<Num(1), Num(2)>>, <<Num(2), Num(1)>>}
       /\ \A c \in Range(columns) \ {"country", "date"} : f[c] # Num(1)
       /\ \A c, d \in Range(columns) \ {"country", "date"} : f[c] = f[d]}

\* two rows of the given columns: a missing cell in the first, duplicate keys
SamplePipelineTable(columns) ==
    Frame(columns,
          <<[c \in Range(columns) |-> IF c \in {"country", "date"} THEN Num(1) ELSE NaN],
            [c \in Range(columns) |-> IF c \in {"country", "date"} THEN Num(1) ELSE Num(2)]>>)

Init ==
    /\ \E k \in 0..MaxPipelineRows :
          \/ \E ccols \in RawCovidColumns, vcols \in RawVaccColumns :
                \E cs \in [1..k -> PipelineRows(ccols)] :
                   data = [Blank EXCEPT
                             !["covid_compact_raw"] = Frame(ccols, cs),
                             !["vaccination_global_raw"] = SamplePipelineTable(vcols)]
          \/ \E ccols \in RawCovidColumns, vcols \in RawVaccColumns :
                \E vs \in [1..k -> PipelineRows(vcols)] :
                   data = [Blank EXCEPT
                             !["covid_compact_raw"] = SamplePipelineTable(ccols),
                             !["vaccination_global_raw"] = Frame(vcols, vs)]
    /\ have = {"covid_compact_raw", "vaccination_global_raw"}
    /\ NothingRun

Next ==
    \/ validate_covid_data
    \/ validate_vaccination_data
    \/ generate_quality_report
    \/ select_columns
    \/ impute_missing
    \/ create_features_node
    \/ integrate_datasets_node
    \/ create_ml_datasets_node

Spec == Init /\ [][Next]_vars

-----------------------------------------------------------------------------
(* Properties of the Validators *)

Validators ==
    {[node |-> "validate_covid_data", raw |-> "covid_compact_raw",
      out |-> "covid_compact_validated", required |-> covid_required_cols],
     [node |-> "validate_vaccination_data", raw |-> "vaccination_global_raw",
      out |-> "vaccination_global_validated", required |-> vacc_required_cols]}

Returned(v) == v.node \in ran /\ v.node \notin raised

Invalid(df, required) ==
    Len(df.rows) = 0 \/ \E c \in Range(required) : c \notin Range(df.columns)

\* C1: a Validator raises and stores no table exactly when its input has zero
\* rows or lacks a required column (country, date, total_cases for the
\* case/death table; country, date, total_vaccinations for the vaccination
\* table); on every other input it returns a table.
C1_ValidatorFailsExactlyOnInvalid ==
    \A v \in Validators :
        v.node \in ran =>
            /\ v.node \in raised <=> Invalid(data[v.raw], v.required)
            /\ v.out \in have <=> ~Invalid(data[v.raw], v.required)

C1_Witness ==
    /\ "validate_covid_data" \in raised
    /\ Len(data["covid_compact_raw"].rows) > 0
    /\ "validate_vaccination_data" \in ran \ raised

KeyOf(r) == <<r.cell["country"], r.cell["date"]>>

\* the position of the last row of rows that has the key of r
LastWithKey(rows, r) ==
    CHOOSE j \in 1..Len(rows) :
        /\ KeyOf(rows[j]) = KeyOf(r)
        /\ \A l \in (j+1)..Len(rows) : KeyOf(rows[l]) # KeyOf(r)

\* C2: the output of a Validator holds exactly one row for each (country,
\* date) pair of its input, and that row carries the cell values of the last
\* input row with that pair.
C2_DedupKeepsLast ==
    \A v \in Validators :
        Returned(v) =>
            LET in == data[v.raw].rows
                out == data[v.out].rows
            IN  /\ \A i \in 1..Len(in) :
                      Cardinality({k \in 1..Len(out) : KeyOf(out[k]) = KeyOf(in[i])}) = 1
                /\ \A k \in 1..Len(out) :
                      /\ \E i \in 1..Len(in) : KeyOf(in[i]) = KeyOf(out[k])
                      /\ out[k].cell = in[LastWithKey(in, out[k])].cell

C2_Witness ==
    /\ Returned(CHOOSE v \in Validators : v.node = "validate_covid_data")
    /\ \E i, j \in 1..Len(data["covid_compact_raw"].rows) :
          LET in == data["covid_compact_raw"].rows
          IN  /\ i < j
              /\ KeyOf(in[i]) = KeyOf(in[j])
              /\ in[i].cell # in[j].cell

\* a <= b in ascending order, a missing value after every present one
AscendingVal(a, b) == isna(b) \/ (~isna(a) /\ a[1] * b[2] <= b[1] * a[2])

AscendingKey(r1, r2) ==
    \/ /\ r1.cell["country"] # r2.cell["country"]
       /\ AscendingVal(r1.cell["country"], r2.cell["country"])
    \/ /\ r1.cell["country"] = r2.cell["country"]
       /\ AscendingVal(r1.cell["date"], r2.cell["date"])

\* C3: the rows of a Validator's output are in ascending (country, date)
\* order, country first and date as tie-break (rows with a missing key value
\* after the others), and carry the row index 0..n-1.
C3_SortedWithContiguousIndex ==
    \A v \in Validators :
        Returned(v) =>
            LET out == data[v.out].rows
            IN  /\ \A k, l \in 1..Len(out) : k < l => AscendingKey(out[k], out[l])
                /\ \A k \in 1..Len(out) : out[k].idx = k - 1

C3_Witness ==
    /\ Returned(CHOOSE v \in Validators : v.node = "validate_vaccination_data")
    /\ Len(data["vaccination_global_validated"].rows) = 3
    /\ LET in == data["vaccination_global_raw"].rows
       IN  /\ ~AscendingKey(in[1], in[2])
           /\ in[1].cell["country"] = in[3].cell["country"]
           /\ in[1].cell["date"] # in[3].cell["date"]

Revalidate(v, df) ==
    IF v.node = "validate_covid_data" THEN load_and_validate_covid(df)
    ELSE load_and_validate_vaccination(df)

\* C4: validating the output of a Validator again succeeds and returns that
\* output unchanged: same columns, same rows in the same order, same index.
C4_ValidatorIdempotent ==
    \A v \in Validators :
        Returned(v) => Revalidate(v, data[v.out]) = Return(<<data[v.out]>>)

C4_Witness ==
    /\ Returned(CHOOSE v \in Validators : v.node = "validate_covid_data")
    /\ Len(data["covid_compact_validated"].rows) >= 2
    /\ data["covid_compact_validated"] # data["covid_compact_raw"]

-----------------------------------------------------------------------------
(* Properties of impute_missing_values *)

Imputed == "impute_missing" \in ran \ raised

NoMissing(df, c) == \A k \in 1..Len(df.rows) : ~isna(df.rows[k].cell[c])

\* x is the k-th smallest of the non-missing values of col
IsKth(col, x, k) ==
    LET pos == {i \in 1..Len(col) : ~isna(col[i])}
    IN  /\ \E i \in pos : col[i] = x
        /\ Cardinality({i \in pos : fless(col[i], x)}) < k
        /\ k <= Cardinality({i \in pos : ~fless(x, col[i])})

\* m is the median of the non-missing values of col (there is at least one)
IsMedian(col, m) ==
    LET n == Cardinality({i \in 1..Len(col) : ~isna(col[i])})
    IN  IF n % 2 = 1 THEN IsKth(col, m, (n + 1) \div 2)
        ELSE \E i, j \in 1..Len(col) :
                /\ IsKth(col, col[i], n \div 2)
                /\ IsKth(col, col[j], n \div 2 + 1)
                /\ isfinite(m)
                /\ 2 * m[1] * col[i][2] * col[j][2]
                     = m[2] * (col[i][1] * col[j][2] + col[j][1] * col[i][2])

SameShape(in, out) ==
    /\ out.columns = in.columns
    /\ Len(out.rows) = Len(in.rows)
    /\ \A k \in 1..Len(in.rows) : out.rows[k].idx = in.rows[k].idx

\* C5: after impute_missing_values no zero-fill column of the case/death
\* table, no median-fill column that had a non-missing value and no
\* vaccination column other than country and date holds a missing cell; a cell
\* that was not missing keeps its value, a missing zero-fill or vaccination
\* cell becomes 0 and a missing median-fill cell becomes the median of the
\* non-missing values of its column.
C5_ImputeLeavesNoMissing ==
    Imputed =>
        LET cin == data["covid_selected"]
            cout == data["covid_imputed"]
            vin == data["vacc_selected"]
            vout == data["vacc_imputed"]
        IN  /\ SameShape(cin, cout) /\ SameShape(vin, vout)
            /\ \A c \in Range(cin.columns), k \in 1..Len(cin.rows) :
                  LET old == cin.rows[k].cell[c]
                      new == cout.rows[k].cell[c]
                  IN  /\ ~isna(old) => new = old
                      /\ c \in Range(covid_strategies) => ~isna(new)
                      /\ c \in Range(covid_strategies) /\ isna(old) => new = Num(0)
                      /\ c \in Range(socio_cols) /\ ~NoMissing(cin, c) /\ isna(old)
                           /\ (\E l \in 1..Len(cin.rows) : ~isna(cin.rows[l].cell[c]))
                           => ~isna(new) /\ IsMedian(Column(cin, c), new)
            /\ \A c \in Range(vin.columns), k \in 1..Len(vin.rows) :
                  LET old == vin.rows[k].cell[c]
                      new == vout.rows[k].cell[c]
                  IN  /\ ~isna(old) => new = old
                      /\ c \notin {"country", "date"} => ~isna(new)
                      /\ c \notin {"country", "date"} /\ isna(old) => new = Num(0)

C5_Witness ==
    /\ Imputed
    /\ data["covid_selected"].columns = <<"country", "date", "total_cases", "median_age">>
    /\ Len(data["covid_selected"].rows) = 4
    /\ LET col == Column(data["covid_selected"], "median_age")
       IN  /\ Range(col) = {NaN, Num(1), Num(2), Num(4)}
           /\ \E k \in 1..4 :
                 /\ isna(col[k])
                 /\ isna(data["covid_selected"].rows[k].cell["total_cases"])
                 /\ data["covid_imputed"].rows[k].cell["median_age"] = Num(2)
                 /\ data["covid_imputed"].rows[k].cell["total_cases"] = Num(0)

-----------------------------------------------------------------------------
(* Properties of create_features *)

Featured == "create_features" \in ran \ raised

\* x = num / den * 100, all three being numbers
IsRatioPct(x, num, den) ==
    /\ isfinite(x) /\ isfinite(num) /\ isfinite(den)
    /\ den[1] # 0
    /\ x[1] * den[1] * num[2] = 100 * num[1] * den[2] * x[2]

FiniteColumn(df, c) ==
    HasCol(df, c) => \A k \in 1..Len(df.rows) : isfinite(df.rows[k].cell[c])

\* the ratio feature out of the columns num and den, as the claim states it
RatioAsClaimed(df, out, num, den) ==
    \A k \in 1..Len(df.rows) :
        LET x == df.rows[k].cell[out]
            n == df.rows[k].cell[num]
            d == df.rows[k].cell[den]
        IN  IF d = Num(0) THEN x = Num(0) ELSE IsRatioPct(x, n, d)

\* the ratio feature as computed: a missing operand gives 0 as well
RatioAsComputed(df, out, num, den) ==
    \A k \in 1..Len(df.rows) :
        LET x == df.rows[k].cell[out]
            n == df.rows[k].cell[num]
            d == df.rows[k].cell[den]
        IN  IF d = Num(0) \/ isna(d) \/ isna(n) THEN x = Num(0) ELSE IsRatioPct(x, n, d)

FeaturesFinite ==
    /\ HasCol(data["covid_features"], "death_rate")
    /\ HasCol(data["vacc_features"], "vaccination_efficiency")
    /\ FiniteColumn(data["covid_features"], "death_rate")
    /\ FiniteColumn(data["covid_features"], "healthcare_capacity_index")
    /\ FiniteColumn(data["vacc_features"], "vaccination_efficiency")

EarlierSameCountry(df, k) ==
    {j \in 1..(k - 1) :
        /\ ~isna(df.rows[k].cell["country"])
        /\ df.rows[j].cell["country"] = df.rows[k].cell["country"]}

Latest(S) == CHOOSE j \in S : \A l \in S : l <= j

\* x = a - b, all three being numbers
IsDifference(x, a, b) ==
    /\ isfinite(x) /\ isfinite(a) /\ isfinite(b)
    /\ x[1] * a[2] * b[2] = x[2] * (a[1] * b[2] - b[1] * a[2])

\* C7 as stated: vaccination_speed is 0 for the first row of each country and
\* otherwise people_vaccinated_per_hundred minus its value in the previous row
\* of the same country.
C7_AsClaimed ==
    Featured =>
        LET df == data["vacc_features"]
        IN  \A k \in 1..Len(df.rows) :
                ~isna(df.rows[k].cell["country"]) =>
                    LET P == EarlierSameCountry(df, k)
                        x == df.rows[k].cell["vaccination_speed"]
                    IN  IF P = {} THEN x = Num(0)
                        ELSE IsDifference(x,
                                 df.rows[k].cell["people_vaccinated_per_hundred"],
                                 df.rows[Latest(P)].cell["people_vaccinated_per_hundred"])

\* C7 (amended): vaccination_speed is 0 for the first row of each country,
\* for a row whose country is missing and for a row whose value or whose
\* previous same-country row's value is missing; otherwise it is
\* people_vaccinated_per_hundred minus its value in the previous row of the
\* same country, rows of other countries in between being ignored.
C7_SpeedIsPerCountryDifference ==
    Featured =>
        LET df == data["vacc_features"]
        IN  /\ HasCol(df, "vaccination_speed")
            /\ \A k \in 1..Len(df.rows) :
                LET P == EarlierSameCountry(df, k)
                    x == df.rows[k].cell["vaccination_speed"]
                    a == df.rows[k].cell["people_vaccinated_per_hundred"]
                IN  IF P = {} THEN x = Num(0)
                    ELSE LET b == df.rows[Latest(P)].cell["people_vaccinated_per_hundred"]
                         IN  IF isna(a) \/ isna(b) THEN x = Num(0)
                             ELSE IsDifference(x, a, b)

C7_Witness ==
    /\ Featured
    /\ Len(data["vacc_features"].rows) = 4
    /\ Column(data["vacc_features"], "country") = <<Num(1), Num(1), Num(1), Num(1)>>
    /\ Column(data["vacc_features"], "people_vaccinated_per_hundred")
         = <<Num(5), Num(8), Num(8), Num(15)>>
    /\ Column(data["vacc_features"], "vaccination_speed")
         = <<Num(0), Num(3), Num(0), Num(7)>>

-----------------------------------------------------------------------------
(* Properties of integrate_datasets *)

Integrated == "integrate_datasets" \in ran \ raised

Countries(df) ==
    {df.rows[k].cell["country"] : k \in 1..Len(df.rows)} \ {NaN}

\* the rows of country g that are chronologically last: no row of g has a
\* later date (a missing date is sorted after every date)
LastRows(df, g) ==
    {i \in 1..Len(df.rows) :
        /\ df.rows[i].cell["country"] = g
        /\ \A j \in 1..Len(df.rows) :
              df.rows[j].cell["country"] = g
                => ~ValBefore(df.rows[i].cell["date"], df.rows[j].cell["date"])}

\* the snapshot row s holds, under the suffix, the cells of row i of df
TakenFrom(s, df, i, other, suffix) ==
    \A c \in Range(df.columns) \ {"country"} :
        s.cell[merged_name(c, other, "country", suffix)] = df.rows[i].cell[c]

\* C8: in the snapshot the columns that come from one input table hold, for
\* each country, the cells of that country's chronologically last row of that
\* table, missing cells included.
C8_SnapshotTakesLastRow ==
    Integrated =>
        LET covid == data["covid_features"]
            vacc == data["vacc_features"]
            snap == data["integrated_data"]
        IN  \A k \in 1..Len(snap.rows) :
                LET s == snap.rows[k]
                    g == s.cell["country"]
                IN  /\ \E i \in LastRows(covid, g) : TakenFrom(s, covid, i, vacc, "_covid")
                    /\ g \in Countries(vacc)
                         => \E i \in LastRows(vacc, g) : TakenFrom(s, vacc, i, covid, "_vacc")

\* C9: the snapshot holds exactly one row for each country of the case/death
\* table, whether or not the vaccination table has the country, no row for a
\* country of the vaccination table alone, and missing vaccination fields in
\* the row of a country the vaccination table lacks.
C9_LeftJoinOnCovidCountries ==
    Integrated =>
        LET covid == data["covid_features"]
            vacc == data["vacc_features"]
            snap == data["integrated_data"]
        IN  /\ {snap.rows[k].cell["country"] : k \in 1..Len(snap.rows)} = Countries(covid)
            /\ Len(snap.rows) = Cardinality(Countries(covid))
            /\ Len(snap.rows) <= Cardinality(Countries(covid))
            /\ snap.columns = <<"country", "date_covid", "population",
                                "date_vacc", "vaccination_speed">>
            /\ \A k \in 1..Len(snap.rows) :
                  snap.rows[k].cell["country"] \notin Countries(vacc)
                    => /\ isna(snap.rows[k].cell["date_vacc"])
                       /\ isna(snap.rows[k].cell["vaccination_speed"])

C9_Witness ==
    /\ Integrated
    /\ Countries(data["covid_features"]) = {Num(1), Num(2)}
    /\ Countries(data["vacc_features"]) = {Num(2), Num(3)}
    /\ Len(data["integrated_data"].rows) = 2
    /\ data["integrated_data"].rows[1].cell["country"] = Num(1)
    /\ isna(data["integrated_data"].rows[1].cell["vaccination_speed"])
    /\ data["integrated_data"].rows[2].cell["vaccination_speed"] = Num(7)

-----------------------------------------------------------------------------
(* Properties of create_ml_datasets *)

Split == "create_ml_datasets" \in ran \ raised

PositionIn(list, c) == CHOOSE i \in 1..Len(list) : list[i] = c

\* out keeps the columns of allow that df has, in the order of allow, and the
\* rows of df without a missing value in those columns, in the order of df
IsMlDataset(out, df, allow) ==
    LET kept == Range(allow) \cap Range(df.columns)
        complete == {k \in 1..Len(df.rows) : \A c \in kept : ~isna(df.rows[k].cell[c])}
    IN  /\ Range(out.columns) = kept
        /\ Len(out.columns) = Cardinality(kept)
        /\ \A i, j \in 1..Len(out.columns) :
              i < j => PositionIn(allow, out.columns[i]) < PositionIn(allow, out.columns[j])
        /\ Len(out.rows) = Cardinality(complete)
        /\ \A k \in complete :
              \E l \in 1..Len(out.rows) :
                 /\ l = Cardinality({m \in complete : m <= k})
                 /\ out.rows[l].idx = df.rows[k].idx
                 /\ \A c \in kept : out.rows[l].cell[c] = df.rows[k].cell[c]
        /\ \A l \in 1..Len(out.rows), c \in kept : ~isna(out.rows[l].cell[c])

\* C10: regression_data and classification_data hold exactly the columns of
\* their allow-list that the snapshot has, in allow-list order, and exactly
\* the snapshot rows without a missing value in those columns, so no retained
\* cell is missing.
C10_MlDatasetsAreCompleteRows ==
    Split =>
        /\ IsMlDataset(data["regression_data"], data["integrated_data"], regression_cols)
        /\ IsMlDataset(data["classification_data"], data["integrated_data"],
                       classification_cols)

C10_Witness ==
    /\ Split
    /\ data["integrated_data"].columns
         = <<"population", "vaccination_speed", "country", "death_rate">>
    /\ Len(data["integrated_data"].rows) = 3
    /\ data["regression_data"].columns = <<"country", "vaccination_speed">>
    /\ Len(data["regression_data"].rows) = 2
    /\ Len(data["classification_data"].rows) = 2
    /\ isna(data["integrated_data"].rows[1].cell["population"])
    /\ data["regression_data"].rows[1].idx = 0
    /\ data["classification_data"].rows[1].idx = 1

-----------------------------------------------------------------------------
(* Optional columns *)

\* the nodes of the data_cleaning pipeline: the stages after validation
CleaningNodes ==
    {"select_columns", "impute_missing", "create_features", "integrate_datasets",
     "create_ml_datasets"}

\* C11: in a run of the default pipeline no stage after validation raises:
\* the tables that passed validation hold country, date and total_cases /
\* total_vaccinations, and a missing optional column makes a stage skip the
\* operation that uses it, never fail.
C11_OptionalColumnsNeverRaise == raised \cap CleaningNodes = {}

-----------------------------------------------------------------------------
(* Input tables are not mutated *)

\* the datasets a node hands to its function, in the order of the parameters
NodeInputs ==
    [validate_covid_data |-> <<"covid_compact_raw">>,
     validate_vaccination_data |-> <<"vaccination_global_raw">>,
     generate_quality_report |->
         <<"covid_compact_validated", "vaccination_global_validated">>,
     select_columns |-> <<"covid_compact_validated", "vaccination_global_validated">>,
     impute_missing |-> <<"covid_selected", "vacc_selected">>,
     create_features |-> <<"covid_imputed", "vacc_imputed">>,
     integrate_datasets |-> <<"covid_features", "vacc_features">>,
     create_ml_datasets |-> <<"integrated_data">>]

\* the tables the function of node n was called with
Given(n) == [k \in 1..Len(NodeInputs[n]) |-> data[NodeInputs[n][k]]]

\* C12: after the call of any stage, whether it returned or raised, each
\* table it was given holds the columns, rows, row order and cell values it
\* held before the call, and no returned table is one of the given objects,
\* so that a later change of a returned table cannot show in an input.
C12_InputsNotMutated ==
    \A n \in ran : effects[n].args = Given(n) /\ effects[n].shared = {}

\* imputation filled a cell, create_features added its columns and the split
\* ran: all of them changed tables, none of them the tables they were given
C12_Witness ==
    /\ {"impute_missing", "create_features", "create_ml_datasets"} \subseteq ran \ raised
    /\ data["covid_imputed"] # data["covid_selected"]
    /\ data["covid_features"] # data["covid_imputed"]
    /\ data["vacc_features"] # data["vacc_imputed"]
    /\ effects["impute_missing"].args = <<data["covid_selected"], data["vacc_selected"]>>

-----------------------------------------------------------------------------
(* Order of the stages *)

Succeeded(n) == n \in ran /\ n \notin raised

\* everything the stages after the Validators produce
Downstream ==
    {"eda_summary_stats", "covid_selected", "vacc_selected", "covid_imputed",
     "vacc_imputed", "covid_features", "vacc_features", "integrated_data",
     "regression_data", "classification_data"}

\* C13: in every run of the default pipeline, in whatever order the two
\* Validators run, the Quality Reporter and the Column Selector have run only
\* if both Validators succeeded, each later stage only if the stage producing
\* its inputs succeeded, and once a Validator has raised none of the
\* downstream datasets is in the catalog.
C13_StagesRunInDependencyOrder ==
    /\ \A n \in {"generate_quality_report", "select_columns"} :
          n \in ran => Succeeded("validate_covid_data")
                       /\ Succeeded("validate_vaccination_data")
    /\ "impute_missing" \in ran => Succeeded("select_columns")
    /\ "create_features" \in ran => Succeeded("impute_missing")
    /\ "integrate_datasets" \in ran => Succeeded("create_features")
    /\ "create_ml_datasets" \in ran => Succeeded("integrate_datasets")
    /\ ({"validate_covid_data", "validate_vaccination_data"} \cap raised # {}
          => have \cap Downstream = {})

\* the whole chain has run, report included
C13_Witness ==
    /\ ran = Nodes
    /\ raised = {}
    /\ Downstream \subseteq have

-----------------------------------------------------------------------------
(* One row per country *)

\* no two rows of df hold the same country
OneRowPerCountry(df) ==
    \A i, j \in 1..Len(df.rows) :
       i # j => df.rows[i].cell["country"] # df.rows[j].cell["country"]

\* the country cells of all rows of df, a missing one included
CountryCells(df) == {df.rows[k].cell["country"] : k \in 1..Len(df.rows)}

\* C14: after the chain validate, select, impute, create_features, integrate,
\* create_ml_datasets, each country is in at most one row of integrated_data,
\* of regression_data and of classification_data; every country of
\* regression_data has a row in the vaccination table; a case/death country
\* without a vaccination row has a missing vaccination_speed (and a missing
\* people_fully_vaccinated_per_hundred, when that column exists) in
\* integrated_data and is not in regression_data.
C14_OneRowPerCountryAndVaccinated ==
    Succeeded("create_ml_datasets") =>
       /\ \A d \in {"integrated_data", "regression_data", "classification_data"} :
             OneRowPerCountry(data[d])
       /\ CountryCells(data["regression_data"]) \subseteq Countries(data["vacc_features"])
       /\ CountryCells(data["regression_data"])
             \subseteq Countries(data["vaccination_global_raw"])
       /\ \A k \in 1..Len(data["integrated_data"].rows) :
             LET row == data["integrated_data"].rows[k]
             IN  row.cell["country"] \notin Countries(data["vacc_features"])
                 => /\ isna(row.cell["vaccination_speed"])
                    /\ HasCol(data["integrated_data"],
                              "people_fully_vaccinated_per_hundred")
                          => isna(row.cell["people_fully_vaccinated_per_hundred"])
                    /\ row.cell["country"] \notin CountryCells(data["regression_data"])

\* two case/death countries with several rows for one of them, one with
\* vaccination rows: the other is dropped from regression_data and kept in
\* classification_data
C14_Witness ==
    /\ Succeeded("create_ml_datasets")
    /\ Len(data["covid_features"].rows) > 2
    /\ Countries(data["integrated_data"]) = {Num(1), Num(2)}
    /\ Countries(data["vacc_features"]) = {Num(1)}
    /\ CountryCells(data["regression_data"]) = {Num(1)}
    /\ CountryCells(data["classification_data"]) = {Num(1), Num(2)}

====
